---- MODULE Spec2Model ----
(***************************************************************************)
(* Model of dataset/fetch_unified_dataset.py: the UnifiedWriter store with *)
(* its VIN precedence rule, the two source normalizers, and the paginated  *)
(* fetch loops driven by main().                                           *)
(*                                                                         *)
(* Python values are modelled by their repr as TLA+ strings ("None",       *)
(* "2020", "'2020'", "''"), so that an int and the string holding its      *)
(* digits are different values and a conversion is a table, not identity.  *)
(* A dict is a function from its possible keys to a value or Absent.       *)
(***************************************************************************)
EXTENDS Integers, Sequences, FiniteSets, TLC

VARIABLES
    db,          \* rows of unified_vehicle_listings as seen through self.conn
    committed,   \* rows of unified_vehicle_listings that are durable on disk
    connOpen,    \* self.conn has not been closed
    call,        \* the last UnifiedWriter operation: its name, argument, result
    closeCount,  \* number of executions of UnifiedWriter.close
    pc,          \* position of main(): "build", "request", "finally", "done"
    api,         \* args.api
    api_key,     \* os.getenv(<API>_API_KEY) is set
    page_size,   \* args.page_size
    max_records, \* args.max_records (NoCap when the option is not given)
    retries,     \* args.retries
    base_rows,   \* base_params.get("rows") (NoCap when the key is not given)
    attempt,     \* _request: attempt
    httpCalls,   \* HTTP requests issued by the current (or the run's last) _request call
    total_inserted, \* run: total_inserted
    page,        \* AutoDevFetcher.run: page
    start,       \* MarketcheckFetcher.run: start
    pagesDone,   \* completed _request calls of this run that returned a response
    lastPage,    \* what the last response held: "none", "full", "short", "empty", "notlist"
    upserts,     \* records passed to upsert by the last insert_many
    lastListings,\* the listings given to the last insert_many
    outcome,     \* how the try block of main ended: "running", "returned", "raised"
    error,       \* the exception that ended it: "none", "network", "config", "listing"
    logged,      \* main logged "Inserted %d unified records": the number, or -1
    inserted,    \* what the last insert_many returned (InsertSpec)
    pagePre,     \* the rows self.conn saw when the last insert_many began
    rec          \* the record under normalization (normalizer specification)

vars == <<db, committed, connOpen, call, closeCount, pc, api, api_key, page_size,
          max_records, retries, base_rows, attempt, httpCalls, total_inserted,
          page, start, pagesDone, lastPage, upserts, lastListings, outcome,
          error, logged, inserted, pagePre, rec>>

writerVars == <<db, committed, connOpen, call, closeCount>>
mainVars == <<pc, api, api_key, page_size, max_records, retries, base_rows,
              attempt, httpCalls, total_inserted, page, start, pagesDone,
              lastPage, upserts, lastListings, outcome, error, logged, inserted,
              pagePre>>

----------------------------------------------------------------------------
(* Python values                                                           *)

None == "None"
Absent == "<absent>"          \* the key is not in the dict
EmptyStr == "''"
VIN1 == "'1FAKE000000000001'"
VIN2 == "'1FAKE000000000002'"

\* Python truthiness of the values that occur: None, '' and 0 are falsy.
Falsy(v) == v \in {None, Absent, EmptyStr, "0"}

\* dict.get(key): None for a key that is not there.
Get(d, k) == IF d[k] = Absent THEN None ELSE d[k]

\* dict.setdefault(key, default): sets only a key that is NOT IN the dict; a key
\* that is there keeps its value, None included.
SetDefault(d, k, v) == IF d[k] = Absent THEN [d EXCEPT ![k] = v] ELSE d

\* a or b
Or(a, b) == IF Falsy(a) THEN b ELSE a

----------------------------------------------------------------------------
(* dataset_builder.merge_sqlite_datasets (imported, lines 18-25)           *)

\* The unified column list; the columns the normalizers' backfill and the
\* precedence rule read, out of the ~70 of the schema.
UNIFIED_COLUMNS ==
    <<"vin", "source", "price", "year", "make", "model", "trim", "body_style",
      "drivetrain", "engine", "fuel_type", "transmission", "doors", "seats",
      "build_year", "build_make", "build_model", "build_trim", "build_body_type",
      "build_fuel_type", "build_transmission", "build_drivetrain", "build_engine",
      "build_doors", "build_std_seating", "media_json", "data_source">>

Columns == {UNIFIED_COLUMNS[i] : i \in 1..Len(UNIFIED_COLUMNS)}

\* empty_record(): every unified column present and set to None.
empty_record == [c \in Columns |-> None]

\* Source priority table; a source that is not in it counts 0 (PRIORITY.get(s, 0)).
PRIORITY == [s \in {"'marketcheck'", "'autodev'"} |->
                IF s = "'marketcheck'" THEN 10 ELSE 5]

PriorityGet(s) == IF s \in DOMAIN PRIORITY THEN PRIORITY[s] ELSE 0

\* to_int: numeric parse; None for None and for what does not parse.
to_int(v) ==
    CASE v \in {"2020", "'2020'"} -> "2020"
      [] v \in {"2019", "'2019'"} -> "2019"
      [] v \in {"15000", "'15000'"} -> "15000"
      [] v \in {"9000", "'9000'"} -> "9000"
      [] v \in {"5", "'5'"} -> "5"
      [] v \in {"4", "'4'"} -> "4"
      [] v \in {"0", "'0'"} -> "0"
      [] OTHER -> None

\* str(x) of an int
str(v) == CASE v = "5" -> "'5'" [] v = "4" -> "'4'" [] v = "0" -> "'0'"
            [] v = "2020" -> "'2020'" [] OTHER -> v

----------------------------------------------------------------------------
(* UnifiedWriter                                                           *)

\* A row of unified_vehicle_listings: one value per unified column.
RowOf(record) == [c \in Columns |-> Get(record, c)]

\* SELECT source FROM unified_vehicle_listings WHERE vin = ?  (fetchone)
SelectByVin(table, vin) == {r \in table : r["vin"] = vin}

\* unified_schema.sql (not among the sources): vin is the key of the table.
KeyOf(row) == row["vin"]

\* Mutant of the insert statement: a plain INSERT into a table without key.
InsertPlain(table, row) == table \cup {row}

\* INSERT OR REPLACE: the row that holds the same key is deleted before the new
\* one is inserted.
InsertOrReplace(table, row) == {r \in table : KeyOf(r) # KeyOf(row)} \cup {row}

\* Mutants of upsert: the precedence test dropped; a field-level merge (a column
\* the record leaves unset keeps the stored value); the source test dropped.
upsert_no_precedence(table, record) ==
    LET vin == Get(record, "vin")
        source == Get(record, "source")
    IN  IF Falsy(vin) \/ Falsy(source)
        THEN [ret |-> FALSE, table |-> table, wrote |-> FALSE]
        ELSE [ret |-> TRUE, table |-> InsertOrReplace(table, RowOf(record)),
              wrote |-> TRUE]

upsert_field_merge(table, record) ==
    LET vin == Get(record, "vin")
        source == Get(record, "source")
        existing == SelectByVin(table, vin)
        merged == IF existing = {} THEN RowOf(record)
                  ELSE [c \in Columns |->
                          IF Get(record, c) = None
                          THEN (CHOOSE r \in existing : TRUE)[c]
                          ELSE Get(record, c)]
    IN  IF Falsy(vin) \/ Falsy(source)
        THEN [ret |-> FALSE, table |-> table, wrote |-> FALSE]
        ELSE IF existing # {}
                /\ PriorityGet((CHOOSE r \in existing : TRUE)["source"]) > PriorityGet(source)
             THEN [ret |-> FALSE, table |-> table, wrote |-> FALSE]
        ELSE [ret |-> TRUE, table |-> InsertOrReplace(table, merged), wrote |-> TRUE]

upsert_no_source_test(table, record) ==
    LET vin == Get(record, "vin")
        source == Get(record, "source")
        existing == SelectByVin(table, vin)
    IN  IF Falsy(vin) THEN [ret |-> FALSE, table |-> table, wrote |-> FALSE]
        ELSE IF existing # {}
                /\ PriorityGet((CHOOSE r \in existing : TRUE)["source"]) > PriorityGet(source)
             THEN [ret |-> FALSE, table |-> table, wrote |-> FALSE]
        ELSE [ret |-> TRUE, table |-> InsertOrReplace(table, RowOf(record)),
              wrote |-> TRUE]

\* Mutant of upsert: an incoming source missing from PRIORITY outranks every
\* stored one, as PRIORITY.get(source, 99) on the right of line 76 would.
upsert_unknown_incoming_wins(table, record) ==
    LET vin == Get(record, "vin")
        source == Get(record, "source")
        existing == SelectByVin(table, vin)
        incoming == IF source \in DOMAIN PRIORITY THEN PRIORITY[source] ELSE 99
    IN  IF Falsy(vin) THEN [ret |-> FALSE, table |-> table, wrote |-> FALSE]
        ELSE IF Falsy(source) THEN [ret |-> FALSE, table |-> table, wrote |-> FALSE]
        ELSE IF existing # {}
                /\ PriorityGet((CHOOSE r \in existing : TRUE)["source"]) > incoming
             THEN [ret |-> FALSE, table |-> table, wrote |-> FALSE]
        ELSE [ret |-> TRUE, table |-> InsertOrReplace(table, RowOf(record)),
              wrote |-> TRUE]

\* upsert(record): the value it returns and the table it leaves.
upsert(table, record) ==
    LET vin == Get(record, "vin")
        source == Get(record, "source")
        existing == SelectByVin(table, vin)
    IN  IF Falsy(vin) THEN [ret |-> FALSE, table |-> table, wrote |-> FALSE]
        ELSE IF Falsy(source) THEN [ret |-> FALSE, table |-> table, wrote |-> FALSE]
        ELSE IF existing # {}
                /\ PriorityGet((CHOOSE r \in existing : TRUE)["source"]) > PriorityGet(source)
             THEN [ret |-> FALSE, table |-> table, wrote |-> FALSE]
        ELSE [ret |-> TRUE, table |-> InsertOrReplace(table, RowOf(record)),
              wrote |-> TRUE]

\* Python's None for an Optional[int] option (max_records, base_params "rows").
NoCap == -1

\* self.conn.commit(): what the connection sees becomes durable.
commit(table) == table

\* Mutant of close(): the connection is released without the commit.
close_no_commit(table, durable) == durable

\* close(): self.conn.commit(), what is durable after it.
close(table, durable) == commit(table)

WriterNext(op, record, result) ==
    /\ call' = [op |-> op, rec |-> record, ret |-> result.ret, wrote |-> result.wrote]
    /\ db' = result.table

\* The records upsert is called with: vin and source missing, empty or set, a
\* price set or not; every other column not given.
WriterRecords ==
    {[c \in Columns |->
        CASE c = "vin" -> v [] c = "source" -> s [] c = "price" -> p [] OTHER -> Absent] :
        v \in {Absent, EmptyStr, VIN1, VIN2},
        s \in {Absent, EmptyStr, "'autodev'", "'marketcheck'", "'manual'"},
        p \in {Absent, "15000"}}

StoredRows ==
    {RowOf(r) : r \in {x \in WriterRecords : ~Falsy(x["vin"]) /\ ~Falsy(x["source"])}}

\* The tables an existing database file can hold: one row per vin.
InitialTables ==
    {t \in SUBSET StoredRows :
        /\ Cardinality(t) <= 2
        /\ \A r1 \in t, r2 \in t : r1["vin"] = r2["vin"] => r1 = r2}

NoCall == [op |-> "init", rec |-> empty_record, ret |-> FALSE, wrote |-> FALSE]

MainIdle ==
    /\ pc = "idle" /\ api = "none" /\ api_key = FALSE /\ page_size = 1
    /\ max_records = NoCap /\ retries = 0 /\ base_rows = NoCap /\ attempt = 0
    /\ httpCalls = 0 /\ total_inserted = 0 /\ page = 1 /\ start = 0
    /\ pagesDone = 0 /\ lastPage = "none" /\ upserts = <<>> /\ lastListings = <<>>
    /\ outcome = "running" /\ error = "none" /\ logged = -1
    /\ inserted = 0 /\ pagePre = {}

\* UnifiedWriter.__init__ on an existing database file (overwrite: an empty one).
WriterInit ==
    /\ db \in InitialTables
    /\ committed = db
    /\ connOpen = TRUE
    /\ call = NoCall
    /\ closeCount = 0
    /\ rec = empty_record
    /\ MainIdle

Upsert(record) ==
    /\ connOpen
    /\ \E result \in {upsert(db, record)} : WriterNext("upsert", record, result)
    /\ UNCHANGED <<committed, connOpen, closeCount, rec>>
    /\ UNCHANGED mainVars

Commit ==
    /\ connOpen
    /\ committed' = commit(db)
    /\ call' = [op |-> "commit", rec |-> empty_record, ret |-> FALSE, wrote |-> FALSE]
    /\ UNCHANGED <<db, connOpen, closeCount, rec>>
    /\ UNCHANGED mainVars

\* close(): commit, then release the connection.
Close ==
    /\ connOpen
    /\ committed' = close(db, committed)
    /\ connOpen' = FALSE
    /\ closeCount' = closeCount + 1
    /\ call' = [op |-> "close", rec |-> empty_record, ret |-> FALSE, wrote |-> FALSE]
    /\ UNCHANGED <<db, rec>>
    /\ UNCHANGED mainVars

WriterStep ==
    \/ \E record \in WriterRecords : Upsert(record)
    \/ Commit
    \/ Close

WriterSpec == WriterInit /\ [][WriterStep]_vars

----------------------------------------------------------------------------
(* Source normalizers                                                      *)

\* The keys of a raw listing the normalizers read, by their access path;
\* "<type>" is the Python type of the listing itself.
ListingKeys ==
    {"<type>", "vin", "price", "media", "build.year", "build.make", "build.model",
     "build.trim", "build.body_type", "build.transmission", "build.drivetrain",
     "build.fuel_type", "build.engine", "build.doors", "build.std_seating",
     "vehicle.vin", "vehicle.year", "vehicle.make", "vehicle.model",
     "vehicle.trim", "vehicle.bodyStyle", "vehicle.drivetrain", "vehicle.engine",
     "vehicle.fuel", "vehicle.transmission", "vehicle.doors", "vehicle.seats",
     "retailListing.price", "retailListing.photos"}

\* record.update({...}): the keys given take the values given.
Update(record, values) ==
    [c \in Columns |-> IF c \in DOMAIN values THEN values[c] ELSE record[c]]

\* Lines 165-174: (build_* field, generic field) of each setdefault.
AutodevBackfill ==
    <<<<"build_year", "year">>, <<"build_make", "make">>, <<"build_model", "model">>,
      <<"build_trim", "trim">>, <<"build_body_type", "body_style">>,
      <<"build_fuel_type", "fuel_type">>, <<"build_transmission", "transmission">>,
      <<"build_drivetrain", "drivetrain">>, <<"build_engine", "engine">>,
      <<"build_doors", "doors">>>>

\* Lines 295-304: (generic field, build_* field) of each setdefault.
MarketcheckBackfill ==
    <<<<"year", "build_year">>, <<"make", "build_make">>, <<"model", "build_model">>,
      <<"trim", "build_trim">>, <<"body_style", "build_body_type">>,
      <<"drivetrain", "build_drivetrain">>, <<"engine", "build_engine">>,
      <<"fuel_type", "build_fuel_type">>, <<"transmission", "build_transmission">>,
      <<"doors", "build_doors">>>>

\* record.setdefault(target, record.get(source)) for each pair, in order.
RECURSIVE SetDefaults(_, _)
SetDefaults(record, pairs) ==
    IF pairs = <<>> THEN record
    ELSE SetDefaults(SetDefault(record, Head(pairs)[1], Get(record, Head(pairs)[2])),
                     Tail(pairs))

\* Lines 111-163: the record after direct population.
autodev_populate(listing) ==
    LET photos == Or(listing["retailListing.photos"], None)
        direct == Update(empty_record,
            [vin |-> listing["vehicle.vin"],
             source |-> "'autodev'",
             price |-> to_int(listing["retailListing.price"]),
             year |-> to_int(listing["vehicle.year"]),
             make |-> listing["vehicle.make"],
             model |-> listing["vehicle.model"],
             trim |-> listing["vehicle.trim"],
             body_style |-> listing["vehicle.bodyStyle"],
             drivetrain |-> listing["vehicle.drivetrain"],
             engine |-> listing["vehicle.engine"],
             fuel_type |-> listing["vehicle.fuel"],
             transmission |-> listing["vehicle.transmission"],
             doors |-> to_int(listing["vehicle.doors"]),
             seats |-> to_int(listing["vehicle.seats"]),
             data_source |-> "'autodev'"])
    IN  IF Falsy(photos) THEN direct ELSE [direct EXCEPT !["media_json"] = photos]

\* Lines 165-177: the backfill of the build_* fields.
autodev_backfill(record) ==
    LET filled == SetDefaults(record, AutodevBackfill)
        seats == Get(filled, "seats")
    IN  IF seats # None THEN SetDefault(filled, "build_std_seating", str(seats))
        ELSE filled

\* normalize_autodev_listing: none is TRUE when it returns None.
normalize_autodev_listing(listing) ==
    IF Falsy(listing["vehicle.vin"])
    THEN [none |-> TRUE, record |-> empty_record]
    ELSE [none |-> FALSE, record |-> autodev_backfill(autodev_populate(listing))]

\* normalize_marketcheck_listing (lines 182-306).
normalize_marketcheck_listing(listing) ==
    IF Falsy(listing["vin"])
    THEN [none |-> TRUE, record |-> empty_record]
    ELSE LET media == Or(listing["media"], None)
             direct == Update(empty_record,
                [vin |-> listing["vin"],
                 source |-> "'marketcheck'",
                 price |-> to_int(listing["price"]),
                 media_json |-> IF Falsy(media) THEN None ELSE media,
                 data_source |-> "'marketcheck'"])
             built == Update(direct,
                [build_year |-> to_int(listing["build.year"]),
                 build_make |-> listing["build.make"],
                 build_model |-> listing["build.model"],
                 build_trim |-> listing["build.trim"],
                 build_body_type |-> listing["build.body_type"],
                 build_transmission |-> listing["build.transmission"],
                 build_drivetrain |-> listing["build.drivetrain"],
                 build_fuel_type |-> listing["build.fuel_type"],
                 build_engine |-> listing["build.engine"],
                 build_doors |-> to_int(listing["build.doors"]),
                 build_std_seating |-> listing["build.std_seating"]])
         IN  [none |-> FALSE, record |-> SetDefaults(built, MarketcheckBackfill)]

\* The normalizer build_fetcher's fetcher passes to insert_many.
Normalizer(source, listing) ==
    IF source = "autodev" THEN normalize_autodev_listing(listing)
    ELSE normalize_marketcheck_listing(listing)

\* listing.get(...) raises AttributeError on a listing that is not a dict.
NormalizerRaises(listing) == listing["<type>"] # "dict"

\* A raw listing: a dict holding v as its VIN (on both paths), y as year, m as
\* make, st as seating, p as price, ph as photos or media, and d in each of the
\* other descriptive fields (4 doors when d is set).
Listing(v, y, m, st, p, ph, d) ==
    [k \in ListingKeys |->
        CASE k = "<type>" -> "dict"
          [] k \in {"vin", "vehicle.vin"} -> v
          [] k \in {"build.year", "vehicle.year"} -> y
          [] k \in {"build.make", "vehicle.make"} -> m
          [] k \in {"build.std_seating", "vehicle.seats"} -> st
          [] k \in {"price", "retailListing.price"} -> p
          [] k \in {"media", "retailListing.photos"} -> ph
          [] k \in {"build.doors", "vehicle.doors"} -> IF d = None THEN None ELSE "'4'"
          [] OTHER -> d]

\* Raw listings given to a normalizer.
RawListings ==
    {Listing(v, y, m, st, p, ph, d) :
        v \in {None, EmptyStr, VIN1},
        y \in {None, "2020", "'2020'", "'n/a'"},
        m \in {None, "'Ford'"},
        st \in {None, "5"},
        p \in {None, "'15000'"},
        ph \in {None, "'{photos}'"},
        d \in {None, "'x'"}}

NormInit ==
    /\ db = {} /\ committed = {} /\ connOpen = FALSE /\ call = NoCall
    /\ closeCount = 0
    /\ lastListings \in {<<l>> : l \in RawListings}
    /\ api \in {"autodev", "marketcheck"}
    /\ pc = "normalize"
    /\ rec = empty_record
    /\ api_key = FALSE /\ page_size = 1 /\ max_records = NoCap /\ retries = 0
    /\ base_rows = NoCap /\ attempt = 0 /\ httpCalls = 0 /\ total_inserted = 0
    /\ page = 1 /\ start = 0 /\ pagesDone = 0 /\ lastPage = "none"
    /\ upserts = <<>> /\ outcome = "running" /\ error = "none" /\ logged = -1
    /\ inserted = 0 /\ pagePre = {}

Normalize ==
    /\ pc = "normalize"
    /\ LET result == Normalizer(api, lastListings[1])
       IN  /\ rec' = result.record
           /\ pc' = IF result.none THEN "returned_none" ELSE "returned_record"
    /\ UNCHANGED <<db, committed, connOpen, call, closeCount, api, api_key,
                   page_size, max_records, retries, base_rows, attempt, httpCalls,
                   total_inserted, page, start, pagesDone, lastPage, upserts,
                   lastListings, outcome, error, logged, inserted, pagePre>>

NormStep == Normalize

NormSpec == NormInit /\ [][NormStep]_vars

\* C5: normalize_autodev_listing of a listing with a VIN, vehicle.year = 2020
\* and no build_year returns a record with year = 2020 and build_year = 2020.
C5_BuildYearBackfilled ==
    (/\ pc = "returned_record" /\ api = "autodev"
     /\ lastListings[1]["vehicle.year"] = "2020")
        => (rec["year"] = "2020" /\ rec["build_year"] = "2020")

----------------------------------------------------------------------------
(* BaseFetcher.insert_many                                                 *)

MaxPageLen == 2     \* listings in one upstream page

UpsertCall(record, result) ==
    [op |-> "upsert", rec |-> record, ret |-> result.ret, wrote |-> result.wrote]

CommitCall == [op |-> "commit", rec |-> empty_record, ret |-> FALSE, wrote |-> FALSE]

\* Mutant of the loop of insert_many: a listing without record is counted.
RECURSIVE insert_loop_counts_skipped(_, _, _)
insert_loop_counts_skipped(st, listings, source) ==
    IF listings = <<>> THEN st
    ELSE IF NormalizerRaises(Head(listings)) THEN [st EXCEPT !.raised = TRUE]
    ELSE LET n == Normalizer(source, Head(listings))
             u == upsert(st.table, n.record)
         IN  IF n.none
             THEN insert_loop_counts_skipped(
                    [st EXCEPT !.inserted = st.inserted + 1], Tail(listings), source)
             ELSE insert_loop_counts_skipped(
                    [table |-> u.table,
                     inserted |-> st.inserted + (IF u.ret THEN 1 ELSE 0),
                     log |-> Append(st.log, n.record),
                     last |-> UpsertCall(n.record, u),
                     raised |-> FALSE],
                    Tail(listings), source)

\* Lines 360-367: the loop over the listings. It stops with raised when the
\* normalizer raises; a listing without record is skipped.
RECURSIVE insert_loop(_, _, _)
insert_loop(st, listings, source) ==
    IF listings = <<>> THEN st
    ELSE IF NormalizerRaises(Head(listings)) THEN [st EXCEPT !.raised = TRUE]
    ELSE LET n == Normalizer(source, Head(listings))
             u == upsert(st.table, n.record)
         IN  IF n.none
             THEN insert_loop(st, Tail(listings), source)
             ELSE insert_loop(
                    [table |-> u.table,
                     inserted |-> st.inserted + (IF u.ret THEN 1 ELSE 0),
                     log |-> Append(st.log, n.record),
                     last |-> UpsertCall(n.record, u),
                     raised |-> FALSE],
                    Tail(listings), source)

\* Mutant of insert_many: no commit at the end of the page.
insert_many_no_commit(table, durable, last, listings, source) ==
    LET st == insert_loop([table |-> table, inserted |-> 0, log |-> <<>>,
                           last |-> last, raised |-> FALSE], listings, source)
    IN  [table |-> st.table, durable |-> durable,
         inserted |-> st.inserted, log |-> st.log, raised |-> st.raised,
         last |-> st.last]

\* insert_many(listings, normalizer) on a connection that sees table while
\* durable is on disk: the loop, then self.writer.commit() unless it raised.
insert_many(table, durable, last, listings, source) ==
    LET st == insert_loop([table |-> table, inserted |-> 0, log |-> <<>>,
                           last |-> last, raised |-> FALSE], listings, source)
    IN  [table |-> st.table,
         durable |-> IF st.raised THEN durable ELSE commit(st.table),
         inserted |-> st.inserted, log |-> st.log, raised |-> st.raised,
         last |-> IF st.raised THEN st.last ELSE CommitCall]

\* The listings a page is made of: one with VIN 1 on both paths; one with VIN 2
\* at the top level only (no vehicle.vin); one with VIN 2 in vehicle only (an
\* empty top-level vin); and one that is a string, not a dict.
PageListings ==
    {Listing(VIN1, "2020", "'Ford'", "5", "'15000'", None, None),
     [Listing(VIN2, "'2020'", None, None, None, None, None) EXCEPT !["vehicle.vin"] = None],
     [Listing(VIN2, None, None, None, "'15000'", None, None) EXCEPT !["vin"] = EmptyStr],
     [Listing(None, None, None, None, None, None, None) EXCEPT !["<type>"] = "str"]}

RECURSIVE SeqsUpTo(_, _)
SeqsUpTo(S, n) ==
    IF n = 0 THEN {<<>>}
    ELSE LET shorter == SeqsUpTo(S, n - 1)
         IN  shorter \cup {Append(q, x) : q \in shorter, x \in S}

Pages == SeqsUpTo(PageListings, MaxPageLen)

\* What an existing database holds when the run starts.
MainTables ==
    {{},
     {RowOf([c \in Columns |->
        CASE c = "vin" -> VIN1 [] c = "source" -> "'marketcheck'"
          [] c = "price" -> "9000" [] OTHER -> Absent])},
     {RowOf([c \in Columns |->
        CASE c = "vin" -> VIN1 [] c = "source" -> "'manual'"
          [] c = "price" -> "9000" [] OTHER -> Absent])}}

InsertInit ==
    /\ db \in MainTables /\ committed = db /\ connOpen = TRUE /\ call = NoCall
    /\ closeCount = 0
    /\ api \in {"autodev", "marketcheck"}
    /\ pc = "insert_many"
    /\ rec = empty_record
    /\ lastListings = <<>> /\ upserts = <<>> /\ inserted = 0 /\ pagePre = db
    /\ error = "none"
    /\ api_key = TRUE /\ page_size = 1 /\ max_records = NoCap /\ retries = 0
    /\ base_rows = NoCap /\ attempt = 0 /\ httpCalls = 0 /\ total_inserted = 0
    /\ page = 1 /\ start = 0 /\ pagesDone = 0 /\ lastPage = "none"
    /\ outcome = "running" /\ logged = -1

\* One call of insert_many on a page of listings; a call that raises ends the
\* run, so no further call follows it.
InsertMany(listings) ==
    /\ pc = "insert_many"
    /\ \E r \in {insert_many(db, committed, call, listings, api)} :
           /\ db' = r.table
           /\ committed' = r.durable
           /\ call' = r.last
           /\ upserts' = r.log
           /\ inserted' = r.inserted
           /\ error' = IF r.raised THEN "listing" ELSE "none"
           /\ pc' = IF r.raised THEN "raised" ELSE "insert_many"
    /\ lastListings' = listings
    /\ pagePre' = db
    /\ UNCHANGED <<connOpen, closeCount, api, api_key, page_size, max_records,
                   retries, base_rows, attempt, httpCalls, total_inserted, page,
                   start, pagesDone, lastPage, outcome, logged, rec>>

InsertStep == \E listings \in Pages : InsertMany(listings)

InsertSpec == InsertInit /\ [][InsertStep]_vars

\* The VIN the source's normalizer reads from a listing.
ListingVin(source, listing) ==
    IF source = "autodev" THEN listing["vehicle.vin"] ELSE listing["vin"]

HasVin(listing) == ~Falsy(ListingVin(api, listing))

\* C4: a listing without VIN (vehicle.vin for Auto.dev, top-level vin for
\* Marketcheck; absent or empty) yields no record; insert_many passes to upsert
\* exactly the listings that have a VIN, in order, counts no other, and leaves
\* the store and the count as the page without those listings would.
C4_NoVinSkipped ==
    (lastListings # <<>> /\ error = "none")
        => LET kept == SelectSeq(lastListings, HasVin)
               alone == insert_many(pagePre, pagePre, NoCall, kept, api)
           IN  /\ Len(upserts) = Len(kept)
               /\ \A i \in 1..Len(kept) :
                    upserts[i]["vin"] = ListingVin(api, kept[i])
               /\ inserted <= Len(kept)
               /\ inserted = alone.inserted
               /\ db = alone.table

\* A page that holds a listing without VIN before one with a VIN, which was
\* passed to upsert and accepted.
C4_Witness ==
    /\ error = "none" /\ Len(lastListings) = 2
    /\ ~HasVin(lastListings[1]) /\ HasVin(lastListings[2])
    /\ Len(upserts) = 1 /\ inserted = 1 /\ db # pagePre

----------------------------------------------------------------------------
(* main(): build_fetcher, the fetcher's run() with _request, and close()   *)

PageSizes == {1, 2} \* the values of args.page_size
MaxCap == 2         \* args.max_records ranges over 0..MaxCap, or is not given
MaxRetries == 1     \* args.retries ranges over 0..MaxRetries
MaxPages == 2       \* 2xx responses the upstream gives to one run

\* The listings of the pages of a run: for Auto.dev one that upsert takes or
\* rejects (VIN 1), one it takes (VIN 2) and one that is no dict; for
\* Marketcheck one it takes (VIN 1), one without VIN and one that is no dict.
RunListings ==
    {l \in PageListings : l["vehicle.vin"] # None \/ l["<type>"] # "dict"}

\* What an existing database holds when the run starts: nothing, or a
\* Marketcheck row for VIN 1.
RunTables == {t \in MainTables : \A r \in t : r["source"] = "'marketcheck'"}

\* payload.get("data") / payload.get("listings"): a list of listings, or a
\* value that is not a list (isList FALSE).
Payloads ==
    {[isList |-> TRUE, items |-> q] : q \in SeqsUpTo(RunListings, MaxPageLen)}
        \cup {[isList |-> FALSE, items |-> <<>>]}

\* After writer = UnifiedWriter(args.output_db, ...) at line 566.
Init ==
    /\ db \in RunTables /\ committed = db /\ connOpen = TRUE /\ call = NoCall
    /\ closeCount = 0
    /\ pc = "build"
    /\ api \in {"autodev", "marketcheck"}
    /\ api_key \in BOOLEAN
    /\ page_size \in PageSizes
    /\ max_records \in {NoCap} \cup 0..MaxCap
    /\ retries \in 0..MaxRetries
    /\ base_rows \in {NoCap} \cup (IF api = "marketcheck" THEN {1} ELSE {})
    /\ attempt = 0 /\ httpCalls = 0 /\ total_inserted = 0 /\ page = 1 /\ start = 0
    /\ pagesDone = 0 /\ lastPage = "none"
    /\ upserts = <<>> /\ lastListings = <<>> /\ inserted = 0 /\ pagePre = {}
    /\ outcome = "running" /\ error = "none" /\ logged = -1
    /\ rec = empty_record

runVars == <<api, api_key, page_size, max_records, retries, base_rows, upserts,
             lastListings, pagePre, inserted, rec>>

\* build_fetcher: the fetcher's __init__ raises ValueError without its API key.
BuildFetcher ==
    /\ pc = "build"
    /\ IF api_key
       THEN /\ pc' = "request"
            /\ UNCHANGED <<outcome, error>>
       ELSE /\ pc' = "finally"
            /\ outcome' = "raised"
            /\ error' = "config"
    /\ UNCHANGED <<db, committed, connOpen, call, closeCount, attempt, httpCalls,
                   total_inserted, page, start, pagesDone, lastPage, logged>>
    /\ UNCHANGED runVars

\* An exception leaves run() (and the try block of main) uncaught.
RunRaises(err) ==
    /\ pc' = "finally"
    /\ outcome' = "raised"
    /\ error' = err
    /\ UNCHANGED logged

\* run() breaks out of its loop and returns total; main logs it (line 570).
RunReturns(total, err) ==
    /\ pc' = "finally"
    /\ outcome' = "returned"
    /\ error' = err
    /\ logged' = total

\* _request, lines 340-347: session.request raises a RequestException.
HttpException ==
    /\ pc = "request"
    /\ httpCalls' = httpCalls + 1
    /\ attempt' = attempt + 1
    /\ IF attempt + 1 > retries
       THEN RunRaises("network")
       ELSE UNCHANGED <<pc, outcome, error, logged>>
    /\ UNCHANGED <<db, committed, connOpen, call, closeCount, total_inserted, page,
                   start, pagesDone, lastPage>>
    /\ UNCHANGED runVars

\* Mutant of the 429 branch: it retries without looking at attempt.
Http429_always_retries ==
    /\ pc = "request"
    /\ httpCalls' = httpCalls + 1
    /\ attempt' = attempt + 1
    /\ UNCHANGED <<pc, outcome, error, logged>>
    /\ UNCHANGED <<db, committed, connOpen, call, closeCount, total_inserted, page,
                   start, pagesDone, lastPage>>
    /\ UNCHANGED runVars

\* _request, lines 349-356: a 429 response. With retries left it is retried;
\* without, raise_for_status raises HTTPError, which run() catches (lines
\* 403-405, 454-456): it logs the error and breaks.
Http429 ==
    /\ pc = "request"
    /\ httpCalls' = httpCalls + 1
    /\ IF attempt < retries
       THEN /\ attempt' = attempt + 1
            /\ UNCHANGED <<pc, outcome, error, logged>>
       ELSE /\ UNCHANGED attempt
            /\ RunReturns(total_inserted, "rate_limit")
    /\ UNCHANGED <<db, committed, connOpen, call, closeCount, total_inserted, page,
                   start, pagesDone, lastPage>>
    /\ UNCHANGED runVars

\* _request, line 356: another error status; raise_for_status raises HTTPError
\* at once, and run() catches it and breaks.
HttpErrorStatus ==
    /\ pc = "request"
    /\ httpCalls' = httpCalls + 1
    /\ RunReturns(total_inserted, "http_status")
    /\ UNCHANGED <<db, committed, connOpen, call, closeCount, attempt,
                   total_inserted, page, start, pagesDone, lastPage>>
    /\ UNCHANGED runVars

\* Mutant of the Auto.dev loop: the page bound of line 422 is not tested.
autodev_after_page_no_bound(total, len, pg) ==
    IF max_records # NoCap /\ total >= max_records THEN [stop |-> TRUE, page |-> pg]
    ELSE IF len < page_size THEN [stop |-> TRUE, page |-> pg]
    ELSE [stop |-> FALSE, page |-> pg + 1]

\* AutoDevFetcher.run, lines 416-424: after a page of len listings that brought
\* the total to total, whether the loop breaks, and page.
autodev_after_page(total, len, pg) ==
    IF max_records # NoCap /\ total >= max_records THEN [stop |-> TRUE, page |-> pg]
    ELSE IF len < page_size THEN [stop |-> TRUE, page |-> pg]
    ELSE IF max_records # NoCap /\ (pg + 1) * page_size >= max_records + page_size
         THEN [stop |-> TRUE, page |-> pg + 1]
    ELSE [stop |-> FALSE, page |-> pg + 1]

\* int(params.get("rows", self.page_size)) after params.setdefault("rows", ...)
Rows == IF base_rows = NoCap THEN page_size ELSE base_rows

\* MarketcheckFetcher.run, lines 467-475.
marketcheck_after_page(total, len, st) ==
    IF max_records # NoCap /\ total >= max_records THEN [stop |-> TRUE, start |-> st]
    ELSE IF len < Rows THEN [stop |-> TRUE, start |-> st]
    ELSE IF max_records # NoCap /\ st + len >= max_records
         THEN [stop |-> TRUE, start |-> st + len]
    ELSE [stop |-> FALSE, start |-> st + len]

\* The listings of a response do not go on: the loop breaks before insert_many.
NoListings(payload) == ~payload.isList \/ payload.items = <<>>

PageKind(payload, requested) ==
    IF ~payload.isList THEN "notlist"
    ELSE IF payload.items = <<>> THEN "empty"
    ELSE IF Len(payload.items) < requested THEN "short"
    ELSE "full"

\* What follows a response in both run() loops: lines 407-413 / 458-464. When
\* the loop goes on, the next _request call begins: attempt and the count of
\* its HTTP requests start at 0.
PageInsert(payload, requested) ==
    /\ pagesDone' = pagesDone + 1
    /\ lastPage' = PageKind(payload, requested)
    /\ UNCHANGED <<connOpen, closeCount>>
    /\ UNCHANGED runVars

\* AutoDevFetcher.run: one iteration of the loop on a 2xx response.
AutoDevPage(payload) ==
    /\ pc = "request" /\ api = "autodev"
    /\ pagesDone < MaxPages
    /\ PageInsert(payload, page_size)
    /\ IF NoListings(payload)
       THEN /\ RunReturns(total_inserted, "none")
            /\ httpCalls' = httpCalls + 1
            /\ UNCHANGED <<db, committed, call, attempt, total_inserted, page, start>>
       ELSE \E r \in {insert_many(db, committed, call, payload.items, "autodev")} :
            LET after == autodev_after_page(total_inserted + r.inserted,
                                            Len(payload.items), page)
            IN  /\ db' = r.table
                /\ committed' = r.durable
                /\ call' = r.last
                /\ UNCHANGED start
                /\ IF r.raised
                   THEN /\ RunRaises("listing")
                        /\ httpCalls' = httpCalls + 1
                        /\ UNCHANGED <<attempt, total_inserted, page>>
                   ELSE /\ total_inserted' = total_inserted + r.inserted
                        /\ page' = after.page
                        /\ IF after.stop
                           THEN /\ RunReturns(total_inserted + r.inserted, "none")
                                /\ httpCalls' = httpCalls + 1
                                /\ UNCHANGED attempt
                           ELSE /\ attempt' = 0
                                /\ httpCalls' = 0
                                /\ UNCHANGED <<pc, outcome, error, logged>>

\* MarketcheckFetcher.run: one iteration of the loop on a 2xx response.
MarketcheckPage(payload) ==
    /\ pc = "request" /\ api = "marketcheck"
    /\ pagesDone < MaxPages
    /\ PageInsert(payload, Rows)
    /\ IF NoListings(payload)
       THEN /\ RunReturns(total_inserted, "none")
            /\ httpCalls' = httpCalls + 1
            /\ UNCHANGED <<db, committed, call, attempt, total_inserted, page, start>>
       ELSE \E r \in {insert_many(db, committed, call, payload.items, "marketcheck")} :
            LET after == marketcheck_after_page(total_inserted + r.inserted,
                                                Len(payload.items), start)
            IN  /\ db' = r.table
                /\ committed' = r.durable
                /\ call' = r.last
                /\ UNCHANGED page
                /\ IF r.raised
                   THEN /\ RunRaises("listing")
                        /\ httpCalls' = httpCalls + 1
                        /\ UNCHANGED <<attempt, total_inserted, start>>
                   ELSE /\ total_inserted' = total_inserted + r.inserted
                        /\ start' = after.start
                        /\ IF after.stop
                           THEN /\ RunReturns(total_inserted + r.inserted, "none")
                                /\ httpCalls' = httpCalls + 1
                                /\ UNCHANGED attempt
                           ELSE /\ attempt' = 0
                                /\ httpCalls' = 0
                                /\ UNCHANGED <<pc, outcome, error, logged>>

\* main, lines 571-572: finally: writer.close().
Finally ==
    /\ pc = "finally"
    /\ connOpen
    /\ committed' = close(db, committed)
    /\ connOpen' = FALSE
    /\ closeCount' = closeCount + 1
    /\ call' = [op |-> "close", rec |-> empty_record, ret |-> FALSE,
                wrote |-> committed # db]
    /\ pc' = "done"
    /\ UNCHANGED <<db, attempt, httpCalls, total_inserted, page, start, pagesDone,
                   lastPage, outcome, error, logged>>
    /\ UNCHANGED runVars

Next ==
    \/ BuildFetcher
    \/ HttpException
    \/ Http429
    \/ HttpErrorStatus
    \/ \E payload \in Payloads : AutoDevPage(payload)
    \/ \E payload \in Payloads : MarketcheckPage(payload)
    \/ Finally

Spec == Init /\ [][Next]_vars

\* main is a sequential program: it takes its next step whenever it has one.
FairSpec == Spec /\ WF_vars(Next)

----------------------------------------------------------------------------
(* Claims about UnifiedWriter.upsert (WriterSpec)                          *)

IsUpsertStep == call'.op = "upsert" /\ connOpen

ArgVin == Get(call'.rec, "vin")
ArgSource == Get(call'.rec, "source")

StoredOutranks(table, record) ==
    \E r \in SelectByVin(table, Get(record, "vin")) :
        PriorityGet(r["source"]) > PriorityGet(Get(record, "source"))

\* C1: an upsert for a VIN whose stored row comes from a source of strictly
\* greater priority than the incoming record's source returns False and leaves
\* the store (every row, seen and durable) as it was.
C1_HigherPriorityKept ==
    [][(IsUpsertStep /\ StoredOutranks(db, call'.rec))
        => (call'.ret = FALSE /\ db' = db /\ committed' = committed)]_vars

C1_Witness ==
    /\ call.op = "upsert"
    /\ call.ret = FALSE
    /\ ~Falsy(Get(call.rec, "vin")) /\ ~Falsy(Get(call.rec, "source"))
    /\ StoredOutranks(db, call.rec)

\* C2: an upsert with non-empty vin and source, for a VIN with no row or with a
\* stored source of equal or lower priority, returns True; afterwards the only
\* row of that VIN holds the incoming record's value on every unified column
\* (None where the record has none), and the rows of other VINs are unchanged.
C2_FullReplacement ==
    [][(IsUpsertStep /\ ~Falsy(ArgVin) /\ ~Falsy(ArgSource)
        /\ ~StoredOutranks(db, call'.rec))
        => /\ call'.ret = TRUE
           /\ \E row \in db' :
                /\ SelectByVin(db', ArgVin) = {row}
                /\ \A c \in Columns : row[c] = Get(call'.rec, c)
           /\ {r \in db' : r["vin"] # ArgVin} = {r \in db : r["vin"] # ArgVin}]_vars

\* The accepted record has no price, the row it replaced (still the durable
\* one) had one, and the stored row has none.
C2_Witness ==
    /\ call.op = "upsert" /\ call.ret = TRUE
    /\ call.rec["price"] = Absent
    /\ \E old \in SelectByVin(committed, Get(call.rec, "vin")) : old["price"] = "15000"
    /\ \E row \in SelectByVin(db, Get(call.rec, "vin")) : row["price"] = None

\* C3: an upsert of a record whose vin or source is missing or empty returns
\* False, issues no write and leaves the store as it was.
C3_MissingIdentityRejected ==
    [][(IsUpsertStep /\ (Falsy(ArgVin) \/ Falsy(ArgSource)))
        => (call'.ret = FALSE /\ call'.wrote = FALSE
            /\ db' = db /\ committed' = committed)]_vars

C3_Witness ==
    /\ call.op = "upsert" /\ call.ret = FALSE
    /\ ~Falsy(Get(call.rec, "vin")) /\ Falsy(Get(call.rec, "source"))
    /\ call.rec["price"] = "15000"

----------------------------------------------------------------------------
(* Claims about the run (Spec, FairSpec)                                   *)

Max(a, b) == IF a >= b THEN a ELSE b

\* _request gave up after its retries: on network errors, on 429 responses.
GaveUp == error \in {"network", "rate_limit"}

\* C6: whenever _request gives up after its retries, on network errors or on
\* 429 responses, the error leaves run(): run returns no count and main logs no
\* insert total.
C6_RetryExhaustionFatal ==
    GaveUp => (outcome = "raised" /\ logged = -1)

\* C7: between two pages everything upsert accepted so far is durable, and a
\* request that fails for good changes no row, seen or durable.
C7_EarlierPagesDurable ==
    [][(pc = "request")
        => /\ committed = db
           /\ (pc' = "finally" /\ error' \in {"network", "rate_limit", "http_status"})
                => (committed' = committed /\ db' = db)]_vars

\* The request after a page with an accepted record has failed for good, and
\* the record is durable.
C7_Witness ==
    /\ pc = "finally" /\ error = "network"
    /\ pagesDone >= 1 /\ total_inserted >= 1
    /\ committed = db /\ \E r \in committed : r["source"] = "'autodev'"

\* C8: with the writer constructed, close() runs exactly once on every way out
\* of the try block (the fetcher is not built, run() returns, run() raises):
\* never twice, the try block is left only into the finally clause, the finally
\* clause is always followed by the end of main, and at the end close() has run
\* once, every write is durable and the connection is released.
C8_CloseOnEveryExit ==
    /\ [](closeCount <= 1)
    /\ [](outcome # "running" => pc \in {"finally", "done"})
    /\ [](pc = "done" => (closeCount = 1 /\ committed = db /\ ~connOpen))
    /\ (outcome # "running") ~> (pc = "done")

\* run() raised in the middle of a page, after an accepted upsert, and close()
\* committed what was outstanding.
C8_Witness ==
    /\ pc = "done" /\ outcome = "raised" /\ error = "listing"
    /\ call.op = "close" /\ call.wrote
    /\ closeCount = 1 /\ committed = db

\* C9: the loop of run() does not go on after a page that is empty, not a list
\* or shorter than the page size asked for, and with max_records set a run
\* gets at most max(1, max_records) responses, whatever they hold.
C9_PaginationTerminates ==
    /\ lastPage \in {"empty", "notlist", "short"} => pc # "request"
    /\ max_records # NoCap => pagesDone <= Max(1, max_records)

\* With max_records = 2 the run has stopped after two full pages of which no
\* record was inserted.
C9_Witness ==
    /\ max_records = 2 /\ pagesDone = 2 /\ lastPage = "full"
    /\ total_inserted = 0 /\ outcome = "returned" /\ error = "none"

\* C10: with max_records set, the total run() returns is never greater than
\* max_records.
C10_TotalWithinCap ==
    max_records # NoCap => total_inserted <= max_records

----------------------------------------------------------------------------
(* Claims about the store as a whole (WriterSpec)                          *)

RowsOfVin(table, vin) == {r \in table : r["vin"] = vin}

\* C11: after any sequence of upsert, commit and close the store, as the
\* connection sees it and as it is on disk, holds at most one row per VIN; an
\* accepted upsert for a VIN that has a row leaves the incoming row only.
C11_OneRowPerVin ==
    /\ \A r1 \in db, r2 \in db : r1["vin"] = r2["vin"] => r1 = r2
    /\ \A r1 \in committed, r2 \in committed : r1["vin"] = r2["vin"] => r1 = r2
    /\ (call.op = "upsert" /\ call.ret)
         => RowsOfVin(db, Get(call.rec, "vin")) = {RowOf(call.rec)}

\* An accepted upsert for a VIN whose row (still the durable one) was another:
\* the connection sees one row for the VIN, the incoming one.
C11_Witness ==
    /\ call.op = "upsert" /\ call.ret = TRUE
    /\ \E old \in RowsOfVin(committed, Get(call.rec, "vin")) : old # RowOf(call.rec)
    /\ Cardinality(RowsOfVin(db, Get(call.rec, "vin"))) = 1

----------------------------------------------------------------------------
(* Claims about BaseFetcher._request (Spec)                                *)

\* C12: one _request call issues at most retries + 1 HTTP requests, whatever
\* the mix of network errors and 429 responses (attempt counts both): while it
\* may still issue one it has issued at most retries, each of them retried, and
\* once it has given up or met another error status the run is over. A call
\* that returns a response does so with the request after those counted at
\* pc = "request", so with at most retries + 1 as well. An error status other
\* than 429 ends the call with the request that met it: every earlier request
\* of the call was a retried one.
C12_RetryBudget ==
    /\ httpCalls <= retries + 1
    /\ pc = "request" => (httpCalls <= retries /\ attempt = httpCalls)
    /\ error \in {"network", "rate_limit", "http_status"} => pc \in {"finally", "done"}
    /\ error = "http_status" => attempt = httpCalls - 1

\* With retries = 1, a first request was retried and the second met a 429: the
\* budget is used up after retries + 1 requests.
C12_Witness ==
    /\ retries = 1 /\ httpCalls = 2 /\ attempt = 1
    /\ error = "rate_limit" /\ pc = "finally"

----------------------------------------------------------------------------
(* Priority of the stored rows across the writer's operations (WriterSpec) *)

\* Every row of before has a row of the same VIN in after whose source has at
\* least its priority.
NoPriorityLoss(before, after) ==
    \A r \in before : \E r2 \in after :
        /\ r2["vin"] = r["vin"]
        /\ PriorityGet(r2["source"]) >= PriorityGet(r["source"])

UnknownSource(s) == s \notin DOMAIN PRIORITY

\* C13: over every step of the writer (upsert, commit, close), a VIN that has a
\* row keeps one and the priority of its row's source never decreases, in the
\* table the connection sees and in the durable one. A source missing from
\* PRIORITY counts as 0 on both sides: as the incoming source it never replaces
\* a row whose source has a positive priority, and as the stored source it
\* never keeps out a record with a non-empty vin and source.
C13_PriorityMonotone ==
    [][/\ NoPriorityLoss(db, db')
       /\ NoPriorityLoss(committed, committed')
       /\ (IsUpsertStep /\ ~Falsy(ArgVin) /\ UnknownSource(ArgSource)
           /\ \E r \in SelectByVin(db, ArgVin) : PriorityGet(r["source"]) > 0)
            => (call'.ret = FALSE /\ db' = db)
       /\ (IsUpsertStep /\ ~Falsy(ArgVin) /\ ~Falsy(ArgSource)
           /\ \E r \in SelectByVin(db, ArgVin) : UnknownSource(r["source"]))
            => (call'.ret = TRUE /\ SelectByVin(db', ArgVin) = {RowOf(call'.rec)})]_vars

\* An accepted upsert raised the priority of a VIN's row from 0 (a stored
\* source missing from PRIORITY) to that of 'autodev'.
C13_Witness ==
    /\ call.op = "upsert" /\ call.ret = TRUE
    /\ Get(call.rec, "source") = "'autodev'"
    /\ \E old \in SelectByVin(committed, Get(call.rec, "vin")) :
          UnknownSource(old["source"])
    /\ \E new \in SelectByVin(db, Get(call.rec, "vin")) :
          PriorityGet(new["source"]) = PRIORITY["'autodev'"]

====
